---------------------------- MODULE Spec2Model ----------------------------
(***************************************************************************)
(* A model of compare_snvs.py: the comparison of a haploid call set with   *)
(* a truth set (compute_stats), as a state machine over the two cursors    *)
(* and the six counters, followed by the report of the derived ratios;     *)
(* of its two loaders (load_vcf, load_truth_set); and of add_dummy_caps.py *)
(* (merge_gfas, add_dummy_nodes); and of                                   *)
(* guess_optimal_num_sampled_haplo.py (collect_tsvs, guess_optimal_n).     *)
(* Each program has its own specification;                                 *)
(* the variables of the programs that are not running keep their initial   *)
(* values.                                                                 *)
(***************************************************************************)
EXTENDS Integers, Sequences, FiniteSets, TLC

VARIABLES
    call_set,            \* List[Variant], argument of compute_stats
    truth_set,           \* List[Variant], argument of compute_stats
    relaxed_truth_set,   \* List[Variant], argument of compute_stats
    relaxed_truth_dict,  \* {pos: Variant}, built at entry (line 125)
    tp, fp, fn,          \* the counters of lines 113-115
    fp_filtered, fn_filtered, fn_in_sv,   \* the counters of lines 116-118
    truth_idx, call_idx, \* the cursors of lines 121-122 (0-based)
    pc,                  \* compute_stats: "running" | "reported" | "done" |
                         \* "error"; the other programs: see their actions
    err_line,            \* the source line that raised ZeroDivisionError, or 0
    output,              \* the lines printed so far
    iters,               \* history: iterations of the main loop so far
    cleanup,             \* history: the cleanup loops that have run an
                         \* iteration, among "calls" and "truth"
    file,                \* load_vcf, load_truth_set: the lines of the file
    line_no,             \* load_vcf, load_truth_set: lines read so far
    gfas,                \* merge_gfas: what read_gfa returns for each file
    gfa_idx,             \* merge_gfas: files merged so far
    current_max_ID,      \* merge_gfas: line 107
    graph,               \* merge_gfas, add_dummy_nodes: (nodes, edges, paths)
    walk_files,          \* collect_tsvs: the file names os.walk yields
    file_idx,            \* collect_tsvs: file names seen so far
    tsv_files,           \* collect_tsvs: {num_hap: path}, line 53;
                         \* guess_optimal_n: {n: the identities of the TSV}
    n_idx,               \* guess_optimal_n: keys of line 161 seen so far
    found_non_hopeless,  \* guess_optimal_n: line 157
    n_with_jump,         \* guess_optimal_n: line 158
    jump_avg,            \* guess_optimal_n: line 160, as [sum, len]
    optimal_n            \* what guess_optimal_n returned (line 209)

loader_vars == << file, line_no >>
gfa_vars == << gfas, gfa_idx, current_max_ID, graph >>
guess_vars == << walk_files, file_idx, tsv_files, n_idx, found_non_hopeless,
                n_with_jump, jump_avg, optimal_n >>

\* what compute_stats never touches
others == << loader_vars, gfa_vars, guess_vars >>

vars == << call_set, truth_set, relaxed_truth_set, relaxed_truth_dict,
           tp, fp, fn, fp_filtered, fn_filtered, fn_in_sv,
           truth_idx, call_idx, pc, err_line, output, iters, cleanup,
           loader_vars, gfa_vars, guess_vars >>

inputs == << call_set, truth_set, relaxed_truth_set, relaxed_truth_dict >>
counters == << tp, fp, fn, fp_filtered, fn_filtered, fn_in_sv >>

---------------------------------------------------------------------------
(* guess_optimal_num_sampled_haplo.py before it runs.                      *)

\* None, for a variable that otherwise holds a natural number
None == -1

GuessIdle ==
    /\ walk_files = << >>
    /\ file_idx = 0
    /\ tsv_files = << >>
    /\ n_idx = 0
    /\ found_non_hopeless = FALSE
    /\ n_with_jump = None
    /\ jump_avg = [sum |-> 0, len |-> 1]
    /\ optimal_n = None

---------------------------------------------------------------------------
(* Bounds of the enumerated inputs.                                        *)

\* the enumerated call sequences hold at most MaxCalls records
MaxCalls == 2

\* the enumerated truth sequences hold at most MaxTruth records
MaxTruth == 2

---------------------------------------------------------------------------
(* The Variant record (lines 26-42).                                       *)

Variant(ref_pos, ref_allele, alt_allele, filtered) ==
    [ref_pos |-> ref_pos, ref_allele |-> ref_allele,
     alt_allele |-> alt_allele, filtered |-> filtered]

is_snv(v) == Len(v.ref_allele) = 1 /\ Len(v.alt_allele) = 1

is_same_var(self, other) ==
    /\ self.ref_pos = other.ref_pos
    /\ self.ref_allele = other.ref_allele
    /\ self.alt_allele = other.alt_allele

---------------------------------------------------------------------------
(* The relaxed lookup (line 125): a dict comprehension keeps, for a key    *)
(* that occurs several times, the value of its last occurrence.            *)

\* mutant: the first occurrence of a key is kept
LastIndexAt_First(seq, p) ==
    CHOOSE i \in DOMAIN seq :
        /\ seq[i].ref_pos = p
        /\ \A j \in DOMAIN seq : seq[j].ref_pos = p => i <= j

LastIndexAt(seq, p) ==
    CHOOSE i \in DOMAIN seq :
        /\ seq[i].ref_pos = p
        /\ \A j \in DOMAIN seq : seq[j].ref_pos = p => j <= i

BuildRelaxedDict(seq) ==
    [p \in {seq[i].ref_pos : i \in DOMAIN seq} |-> seq[LastIndexAt(seq, p)]]

\* lines 153-154 and 182-183
InRelaxed(call) ==
    /\ call.ref_pos \in DOMAIN relaxed_truth_dict
    /\ is_same_var(relaxed_truth_dict[call.ref_pos], call)

---------------------------------------------------------------------------
(* Inputs.                                                                 *)

\* the reference positions of the enumerated variants
Positions == {1, 2}

A == <<"A">>
G == <<"G">>
T == <<"T">>
AA == <<"A", "A">>
GG == <<"G", "G">>

\* SNV calls (either alternate allele, filtered or not), a two-base deletion
\* and a one-base insertion at every position
CallVariants ==
    {Variant(p, A, alt, f) : p \in Positions, alt \in {G, T}, f \in BOOLEAN}
    \cup {Variant(p, AA, A, FALSE) : p \in Positions}
    \cup {Variant(p, A, GG, FALSE) : p \in Positions}

\* load_truth_set emits SNV rows only, never filtered (lines 79-80)
TruthVariants == {Variant(p, A, alt, FALSE) : p \in Positions, alt \in {G, T}}

SeqsOfLen(S, k) == [1 .. k -> S]

\* the scenarios of the specification's section 8
Del15 == [i \in 1 .. 15 |-> "A"]

ScenarioInputs ==
    { [calls |-> << Variant(100, A, G, FALSE) >>,
       truth |-> << Variant(100, A, G, FALSE) >>, relaxed |-> << >>],
      [calls |-> << Variant(100, A, G, TRUE) >>,
       truth |-> << Variant(100, A, G, FALSE) >>, relaxed |-> << >>],
      [calls |-> << Variant(50, A, T, FALSE) >>,
       truth |-> << >>, relaxed |-> << >>],
      [calls |-> << Variant(190, Del15, A, FALSE) >>,
       truth |-> << Variant(200, <<"C">>, T, FALSE) >>, relaxed |-> << >>] }

---------------------------------------------------------------------------
(* compute_stats, lines 113-125.                                           *)

\* the state after line 125, for the three arguments
Start(calls, truth_arg, relaxed) ==
    /\ call_set = calls
    /\ truth_set = truth_arg
    /\ relaxed_truth_set = relaxed
    /\ relaxed_truth_dict = BuildRelaxedDict(relaxed)
    /\ tp = 0 /\ fp = 0 /\ fn = 0
    /\ fp_filtered = 0 /\ fn_filtered = 0 /\ fn_in_sv = 0
    /\ truth_idx = 0 /\ call_idx = 0
    /\ pc = "running"
    /\ err_line = 0
    /\ output = << >>
    /\ iters = 0
    /\ cleanup = {}
    /\ file = << >>
    /\ line_no = 0
    /\ gfas = << >>
    /\ gfa_idx = 0
    /\ current_max_ID = 0
    /\ graph = << >>
    /\ GuessIdle

\* every call sequence of at most MaxCalls records and every truth sequence
\* of at most MaxTruth records, in any order, with every relaxed truth set
\* of at most one record; and the scenarios
Init ==
    \/ \E n \in 0 .. MaxCalls, m \in 0 .. MaxTruth, k \in 0 .. 1 :
          \E c \in SeqsOfLen(CallVariants, n),
             t \in SeqsOfLen(TruthVariants, m),
             r \in SeqsOfLen(TruthVariants, k) : Start(c, t, r)
    \/ \E inp \in ScenarioInputs : Start(inp.calls, inp.truth, inp.relaxed)

\* lines 128-129
call == call_set[call_idx + 1]
truth == truth_set[truth_idx + 1]

\* mutant: the span ends one base early
call_end_OneShort == call.ref_pos + Len(call.ref_allele) - 2

\* line 134
call_end == call.ref_pos + Len(call.ref_allele) - 1

\* mutant: the main loop stops one call early
InMainLoop_StopsEarly ==
    /\ pc = "running"
    /\ call_idx + 1 < Len(call_set)
    /\ truth_idx < Len(truth_set)

\* line 127
InMainLoop ==
    /\ pc = "running"
    /\ call_idx < Len(call_set)
    /\ truth_idx < Len(truth_set)

\* mutant: a truth variant before the call is passed without a count
NonSnvTruthBefore_NoFn ==
    /\ pc = "running"
    /\ call_idx < Len(call_set)
    /\ truth_idx < Len(truth_set)
    /\ ~is_snv(call)
    /\ truth.ref_pos < call.ref_pos
    /\ truth_idx' = truth_idx + 1
    /\ iters' = iters + 1
    /\ UNCHANGED << others, cleanup >>
    /\ UNCHANGED << inputs, counters, call_idx, pc, err_line, output >>

\* lines 136-139
NonSnvTruthBefore ==
    /\ InMainLoop
    /\ ~is_snv(call)
    /\ truth.ref_pos < call.ref_pos
    /\ fn' = fn + 1
    /\ truth_idx' = truth_idx + 1
    /\ iters' = iters + 1
    /\ UNCHANGED << others, cleanup >>
    /\ UNCHANGED << inputs, tp, fp, fp_filtered, fn_filtered, fn_in_sv,
                    call_idx, pc, err_line, output >>

\* mutant: a covered truth variant is counted in fn_in_sv only
NonSnvTruthCovered_NoFn ==
    /\ pc = "running"
    /\ call_idx < Len(call_set)
    /\ truth_idx < Len(truth_set)
    /\ ~is_snv(call)
    /\ ~(truth.ref_pos < call.ref_pos)
    /\ truth.ref_pos <= call.ref_pos + Len(call.ref_allele) - 1
    /\ fn_in_sv' = fn_in_sv + 1
    /\ truth_idx' = truth_idx + 1
    /\ iters' = iters + 1
    /\ UNCHANGED << others, cleanup >>
    /\ UNCHANGED << inputs, tp, fp, fn, fp_filtered, fn_filtered,
                    call_idx, pc, err_line, output >>

\* lines 140-144
NonSnvTruthCovered ==
    /\ InMainLoop
    /\ ~is_snv(call)
    /\ ~(truth.ref_pos < call.ref_pos)
    /\ truth.ref_pos <= call_end
    /\ fn_in_sv' = fn_in_sv + 1
    /\ fn' = fn + 1
    /\ truth_idx' = truth_idx + 1
    /\ iters' = iters + 1
    /\ UNCHANGED << others, cleanup >>
    /\ UNCHANGED << inputs, tp, fp, fp_filtered, fn_filtered,
                    call_idx, pc, err_line, output >>

\* mutant: the call cursor is not advanced
NonSnvNextCall_Stuck ==
    /\ pc = "running"
    /\ call_idx < Len(call_set)
    /\ truth_idx < Len(truth_set)
    /\ ~is_snv(call)
    /\ ~(truth.ref_pos < call.ref_pos)
    /\ ~(truth.ref_pos <= call.ref_pos + Len(call.ref_allele) - 1)
    /\ iters' = iters + 1
    /\ UNCHANGED << others, cleanup >>
    /\ UNCHANGED << inputs, counters, call_idx, truth_idx, pc, err_line,
                    output >>

\* lines 145-147
NonSnvNextCall ==
    /\ InMainLoop
    /\ ~is_snv(call)
    /\ ~(truth.ref_pos < call.ref_pos)
    /\ ~(truth.ref_pos <= call_end)
    /\ call_idx' = call_idx + 1
    /\ iters' = iters + 1
    /\ UNCHANGED << others, cleanup >>
    /\ UNCHANGED << inputs, counters, truth_idx, pc, err_line, output >>

\* mutant: a call found in the relaxed truth set is left out of fp
SnvFalsePositive_RelaxedNotFp ==
    /\ pc = "running"
    /\ call_idx < Len(call_set)
    /\ truth_idx < Len(truth_set)
    /\ is_snv(call)
    /\ call.ref_pos < truth.ref_pos
    /\ fp_filtered' = IF InRelaxed(call) THEN fp_filtered + 1 ELSE fp_filtered
    /\ fp' = IF InRelaxed(call) THEN fp ELSE fp + 1
    /\ call_idx' = call_idx + 1
    /\ iters' = iters + 1
    /\ UNCHANGED << others, cleanup >>
    /\ UNCHANGED << inputs, tp, fn, fn_filtered, fn_in_sv,
                    truth_idx, pc, err_line, output >>

\* lines 150-158
SnvFalsePositive ==
    /\ InMainLoop
    /\ is_snv(call)
    /\ call.ref_pos < truth.ref_pos
    /\ fp_filtered' = IF InRelaxed(call) THEN fp_filtered + 1 ELSE fp_filtered
    /\ fp' = fp + 1
    /\ call_idx' = call_idx + 1
    /\ iters' = iters + 1
    /\ UNCHANGED << others, cleanup >>
    /\ UNCHANGED << inputs, tp, fn, fn_filtered, fn_in_sv,
                    truth_idx, pc, err_line, output >>

\* lines 159-162
SnvFalseNegative ==
    /\ InMainLoop
    /\ is_snv(call)
    /\ ~(call.ref_pos < truth.ref_pos)
    /\ call.ref_pos > truth.ref_pos
    /\ fn' = fn + 1
    /\ truth_idx' = truth_idx + 1
    /\ iters' = iters + 1
    /\ UNCHANGED << others, cleanup >>
    /\ UNCHANGED << inputs, tp, fp, fp_filtered, fn_filtered, fn_in_sv,
                    call_idx, pc, err_line, output >>

\* mutant: the truth cursor is not advanced with the call cursor
SnvSamePosition_KeepsTruth ==
    /\ pc = "running"
    /\ call_idx < Len(call_set)
    /\ truth_idx < Len(truth_set)
    /\ is_snv(call)
    /\ ~(call.ref_pos < truth.ref_pos)
    /\ ~(call.ref_pos > truth.ref_pos)
    /\ IF is_same_var(truth, call)
       THEN IF call.filtered
            THEN /\ fn_filtered' = fn_filtered + 1
                 /\ UNCHANGED << tp, fn, fp >>
            ELSE /\ tp' = tp + 1
                 /\ UNCHANGED << fn_filtered, fn, fp >>
       ELSE /\ fn' = fn + 1
            /\ fp' = fp + 1
            /\ UNCHANGED << tp, fn_filtered >>
    /\ call_idx' = call_idx + 1
    /\ iters' = iters + 1
    /\ UNCHANGED << others, cleanup >>
    /\ UNCHANGED << inputs, fp_filtered, fn_in_sv, truth_idx, pc, err_line,
                    output >>

\* mutant: a filtered match is counted in fn as well as in fn_filtered
SnvSamePosition_FilteredAlsoFn ==
    /\ pc = "running"
    /\ call_idx < Len(call_set)
    /\ truth_idx < Len(truth_set)
    /\ is_snv(call)
    /\ ~(call.ref_pos < truth.ref_pos)
    /\ ~(call.ref_pos > truth.ref_pos)
    /\ IF is_same_var(truth, call)
       THEN IF call.filtered
            THEN /\ fn_filtered' = fn_filtered + 1
                 /\ fn' = fn + 1
                 /\ UNCHANGED << tp, fp >>
            ELSE /\ tp' = tp + 1
                 /\ UNCHANGED << fn_filtered, fn, fp >>
       ELSE /\ fn' = fn + 1
            /\ fp' = fp + 1
            /\ UNCHANGED << tp, fn_filtered >>
    /\ call_idx' = call_idx + 1
    /\ truth_idx' = truth_idx + 1
    /\ iters' = iters + 1
    /\ UNCHANGED << others, cleanup >>
    /\ UNCHANGED << inputs, fp_filtered, fn_in_sv, pc, err_line, output >>

\* lines 163-175
SnvSamePosition ==
    /\ InMainLoop
    /\ is_snv(call)
    /\ ~(call.ref_pos < truth.ref_pos)
    /\ ~(call.ref_pos > truth.ref_pos)
    /\ IF is_same_var(truth, call)
       THEN IF call.filtered
            THEN /\ fn_filtered' = fn_filtered + 1
                 /\ UNCHANGED << tp, fn, fp >>
            ELSE /\ tp' = tp + 1
                 /\ UNCHANGED << fn_filtered, fn, fp >>
       ELSE /\ fn' = fn + 1
            /\ fp' = fp + 1
            /\ UNCHANGED << tp, fn_filtered >>
    /\ call_idx' = call_idx + 1
    /\ truth_idx' = truth_idx + 1
    /\ iters' = iters + 1
    /\ UNCHANGED << others, cleanup >>
    /\ UNCHANGED << inputs, fp_filtered, fn_in_sv, pc, err_line, output >>

\* lines 127-175: one iteration of the main loop
MainLoopStep ==
    \/ NonSnvTruthBefore
    \/ NonSnvTruthCovered
    \/ NonSnvNextCall
    \/ SnvFalsePositive
    \/ SnvFalseNegative
    \/ SnvSamePosition

\* mutant: every remaining call is counted, SNV or not
LeftoverCallStep_CountsEveryCall ==
    /\ pc = "running"
    /\ ~(call_idx < Len(call_set) /\ truth_idx < Len(truth_set))
    /\ call_idx < Len(call_set)
    /\ fp_filtered' = IF InRelaxed(call) THEN fp_filtered + 1 ELSE fp_filtered
    /\ fp' = fp + 1
    /\ call_idx' = call_idx + 1
    /\ cleanup' = cleanup \cup {"calls"}
    /\ UNCHANGED others
    /\ UNCHANGED << inputs, tp, fn, fn_filtered, fn_in_sv,
                    truth_idx, pc, err_line, output, iters >>

\* lines 178-187: one iteration of the loop over the remaining calls
LeftoverCallStep ==
    /\ pc = "running"
    /\ ~InMainLoop
    /\ call_idx < Len(call_set)
    /\ IF is_snv(call)
       THEN /\ fp_filtered' =
                   IF InRelaxed(call) THEN fp_filtered + 1 ELSE fp_filtered
            /\ fp' = fp + 1
       ELSE UNCHANGED << fp_filtered, fp >>
    /\ call_idx' = call_idx + 1
    /\ cleanup' = cleanup \cup {"calls"}
    /\ UNCHANGED others
    /\ UNCHANGED << inputs, tp, fn, fn_filtered, fn_in_sv,
                    truth_idx, pc, err_line, output, iters >>

\* mutant: the counted truth variant is popped off the list
LeftoverTruthStep_Pops ==
    /\ pc = "running"
    /\ ~(call_idx < Len(call_set) /\ truth_idx < Len(truth_set))
    /\ ~(call_idx < Len(call_set))
    /\ truth_idx < Len(truth_set)
    /\ fn' = fn + 1
    /\ truth_set' = Tail(truth_set)
    /\ cleanup' = cleanup \cup {"truth"}
    /\ UNCHANGED others
    /\ UNCHANGED << call_set, relaxed_truth_set, relaxed_truth_dict,
                    tp, fp, fp_filtered, fn_filtered, fn_in_sv,
                    call_idx, truth_idx, pc, err_line, output, iters >>

\* mutant: the remaining truth variants are skipped, not counted
LeftoverTruthStep_NoFn ==
    /\ pc = "running"
    /\ ~(call_idx < Len(call_set) /\ truth_idx < Len(truth_set))
    /\ ~(call_idx < Len(call_set))
    /\ truth_idx < Len(truth_set)
    /\ truth_idx' = truth_idx + 1
    /\ cleanup' = cleanup \cup {"truth"}
    /\ UNCHANGED others
    /\ UNCHANGED << inputs, counters, call_idx, pc, err_line, output, iters >>

\* lines 190-192: one iteration of the loop over the remaining truth variants
LeftoverTruthStep ==
    /\ pc = "running"
    /\ ~InMainLoop
    /\ ~(call_idx < Len(call_set))
    /\ truth_idx < Len(truth_set)
    /\ fn' = fn + 1
    /\ truth_idx' = truth_idx + 1
    /\ cleanup' = cleanup \cup {"truth"}
    /\ UNCHANGED others
    /\ UNCHANGED << inputs, tp, fp, fp_filtered, fn_filtered, fn_in_sv,
                    call_idx, pc, err_line, output, iters >>

---------------------------------------------------------------------------
(* The report, lines 194-205.                                              *)

\* f"{x:.4f}" of the float num / den, in ten-thousandths: the quotient
\* rounded to the nearest, a tie to the even neighbour
Fmt4(num, den) ==
    LET q == (num * 10000) \div den
        r == (num * 10000) % den
    IN  IF 2 * r > den \/ (2 * r = den /\ q % 2 = 1) THEN q + 1 ELSE q

\* mutant: a sequence that is not ascending by position is rejected
PrintStats_RejectsUnsorted ==
    /\ pc = "running"
    /\ ~(call_idx < Len(call_set))
    /\ ~(truth_idx < Len(truth_set))
    /\ IF \/ \E i \in 1 .. Len(call_set) - 1 :
                call_set[i].ref_pos > call_set[i + 1].ref_pos
          \/ \E i \in 1 .. Len(truth_set) - 1 :
                truth_set[i].ref_pos > truth_set[i + 1].ref_pos
       THEN /\ pc' = "error"
            /\ err_line' = 127
            /\ UNCHANGED output
       ELSE IF tp + fp = 0
       THEN /\ pc' = "error"
            /\ err_line' = 195
            /\ UNCHANGED output
       ELSE IF tp + fn = 0
       THEN /\ pc' = "error"
            /\ err_line' = 196
            /\ UNCHANGED output
       ELSE /\ pc' = "reported"
            /\ output' = << << "True Positives (TP)", << tp >> >>,
                            << "False Positives (FP)", << fp, fp_filtered >> >>,
                            << "False Negatives (FN)",
                               << fn, fn_filtered, fn_in_sv >> >>,
                            << "Precision", << Fmt4(tp, tp + fp) >> >>,
                            << "Recall", << Fmt4(tp, tp + fn) >> >> >>
            /\ UNCHANGED err_line
    /\ UNCHANGED << others, cleanup >>
    /\ UNCHANGED << inputs, counters, truth_idx, call_idx, iters >>

\* mutant: the three ratios are computed before anything is printed
PrintStats_AllRatiosFirst ==
    /\ pc = "running"
    /\ ~(call_idx < Len(call_set))
    /\ ~(truth_idx < Len(truth_set))
    /\ IF tp + fp = 0
       THEN /\ pc' = "error"
            /\ err_line' = 195
            /\ UNCHANGED output
       ELSE IF tp + fn = 0
       THEN /\ pc' = "error"
            /\ err_line' = 196
            /\ UNCHANGED output
       ELSE IF tp + fn - fn_in_sv = 0
       THEN /\ pc' = "error"
            /\ err_line' = 204
            /\ UNCHANGED output
       ELSE /\ pc' = "reported"
            /\ output' = << << "True Positives (TP)", << tp >> >>,
                            << "False Positives (FP)", << fp, fp_filtered >> >>,
                            << "False Negatives (FN)",
                               << fn, fn_filtered, fn_in_sv >> >>,
                            << "Precision", << Fmt4(tp, tp + fp) >> >>,
                            << "Recall", << Fmt4(tp, tp + fn) >> >> >>
            /\ UNCHANGED err_line
    /\ UNCHANGED << others, cleanup >>
    /\ UNCHANGED << inputs, counters, truth_idx, call_idx, iters >>

\* mutant: a zero recall denominator is reported as the recall 0.0000
PrintStats_ZeroRecall ==
    /\ pc = "running"
    /\ ~(call_idx < Len(call_set))
    /\ ~(truth_idx < Len(truth_set))
    /\ IF tp + fp = 0
       THEN /\ pc' = "error"
            /\ err_line' = 195
            /\ UNCHANGED output
       ELSE /\ pc' = "reported"
            /\ output' = << << "True Positives (TP)", << tp >> >>,
                            << "False Positives (FP)", << fp, fp_filtered >> >>,
                            << "False Negatives (FN)",
                               << fn, fn_filtered, fn_in_sv >> >>,
                            << "Precision", << Fmt4(tp, tp + fp) >> >>,
                            << "Recall",
                               << IF tp + fn = 0 THEN 0
                                  ELSE Fmt4(tp, tp + fn) >> >> >>
            /\ UNCHANGED err_line
    /\ UNCHANGED << others, cleanup >>
    /\ UNCHANGED << inputs, counters, truth_idx, call_idx, iters >>

\* lines 195-202: both ratios are computed before anything is printed
PrintStats ==
    /\ pc = "running"
    /\ ~(call_idx < Len(call_set))
    /\ ~(truth_idx < Len(truth_set))
    /\ IF tp + fp = 0
       THEN /\ pc' = "error"
            /\ err_line' = 195
            /\ UNCHANGED output
       ELSE IF tp + fn = 0
       THEN /\ pc' = "error"
            /\ err_line' = 196
            /\ UNCHANGED output
       ELSE /\ pc' = "reported"
            /\ output' = << << "True Positives (TP)", << tp >> >>,
                            << "False Positives (FP)", << fp, fp_filtered >> >>,
                            << "False Negatives (FN)",
                               << fn, fn_filtered, fn_in_sv >> >>,
                            << "Precision", << Fmt4(tp, tp + fp) >> >>,
                            << "Recall", << Fmt4(tp, tp + fn) >> >> >>
            /\ UNCHANGED err_line
    /\ UNCHANGED << others, cleanup >>
    /\ UNCHANGED << inputs, counters, truth_idx, call_idx, iters >>

\* lines 203-205
PrintRecallNoSv ==
    /\ pc = "reported"
    /\ IF tp + fn - fn_in_sv = 0
       THEN /\ pc' = "error"
            /\ err_line' = 204
            /\ UNCHANGED output
       ELSE /\ pc' = "done"
            /\ output' = Append(output,
                   << "Recall excluding FNs in SVs",
                      << Fmt4(tp, tp + fn - fn_in_sv) >> >>)
            /\ UNCHANGED err_line
    /\ UNCHANGED << others, cleanup >>
    /\ UNCHANGED << inputs, counters, truth_idx, call_idx, iters >>

Next ==
    \/ MainLoopStep
    \/ LeftoverCallStep
    \/ LeftoverTruthStep
    \/ PrintStats
    \/ PrintRecallNoSv

Spec == Init /\ [][Next]_vars

\* the inputs of Init with an empty relaxed truth set, which the order of
\* the steps does not depend upon
InitNoRelaxed ==
    \/ \E n \in 0 .. MaxCalls, m \in 0 .. MaxTruth :
          \E c \in SeqsOfLen(CallVariants, n),
             t \in SeqsOfLen(TruthVariants, m) : Start(c, t, << >>)
    \/ \E inp \in ScenarioInputs : Start(inp.calls, inp.truth, inp.relaxed)

\* the inputs with a relaxed truth set of two records
InitRelaxed ==
    \E n \in 0 .. MaxCalls, m \in 0 .. 1 :
        \E c \in SeqsOfLen(CallVariants, n),
           t \in SeqsOfLen(TruthVariants, m),
           r \in SeqsOfLen(TruthVariants, 2) : Start(c, t, r)

SpecRelaxed == InitRelaxed /\ [][Next]_vars

\* the interpreter runs compute_stats to its return or to its exception:
\* a step that can be taken is taken
FairSpec == InitNoRelaxed /\ [][Next]_vars /\ WF_vars(Next)

---------------------------------------------------------------------------
(* Vocabulary of the properties.                                           *)

\* the walk and both cleanup loops are over: the counters are final
WalkOver ==
    /\ ~(call_idx < Len(call_set))
    /\ ~(truth_idx < Len(truth_set))

Ascending(seq) ==
    \A i, j \in DOMAIN seq : i < j => seq[i].ref_pos <= seq[j].ref_pos

StrictlyAscending(seq) ==
    \A i, j \in DOMAIN seq : i < j => seq[i].ref_pos < seq[j].ref_pos

PositionsOf(seq) == {seq[i].ref_pos : i \in DOMAIN seq}

\* records with one-base reference and alternate alleles
SnvIndexes(seq) ==
    {i \in DOMAIN seq : Len(seq[i].ref_allele) = 1 /\ Len(seq[i].alt_allele) = 1}

\* the call sequence is the truth sequence, every call unfiltered
IdenticalSets ==
    /\ Len(call_set) = Len(truth_set)
    /\ \A i \in DOMAIN call_set :
          /\ call_set[i].ref_pos = truth_set[i].ref_pos
          /\ call_set[i].ref_allele = truth_set[i].ref_allele
          /\ call_set[i].alt_allele = truth_set[i].alt_allele
          /\ ~call_set[i].filtered
    /\ SnvIndexes(call_set) = DOMAIN call_set

Line(label) == {i \in DOMAIN output : output[i][1] = label}

---------------------------------------------------------------------------
(* C1: for a sorted truth sequence with unique positions and a call        *)
(* sequence identical to it (every call an unfiltered SNV), the walk ends  *)
(* with tp = len(truth), fp = 0 and fn = 0; for a single pair the report   *)
(* is made, with precision 1.0000 and recall 1.0000.                       *)
C1_IdenticalSetsAllTruePositives ==
    (IdenticalSets /\ StrictlyAscending(truth_set)) =>
        /\ WalkOver => (tp = Len(truth_set) /\ fp = 0 /\ fn = 0)
        /\ Len(truth_set) >= 1 => pc # "error"
        /\ (Len(truth_set) = 1 /\ pc \in {"reported", "done"}) =>
              /\ output[4] = << "Precision", << 10000 >> >>
              /\ output[5] = << "Recall", << 10000 >> >>

C1_Witness ==
    /\ IdenticalSets
    /\ StrictlyAscending(truth_set)
    /\ Len(truth_set) = 2
    /\ pc = "done"
    /\ tp = 2

(* C2: for sorted call and truth sequences that share no position, the     *)
(* walk ends with tp = 0, fp = the number of SNV calls (filtered or not)   *)
(* and fn = len(truth).                                                    *)
C2_DisjointSetsNoTruePositives ==
    ( /\ Ascending(call_set)
      /\ Ascending(truth_set)
      /\ PositionsOf(call_set) \cap PositionsOf(truth_set) = {}
      /\ WalkOver ) =>
        /\ tp = 0
        /\ fp = Cardinality(SnvIndexes(call_set))
        /\ fn = Len(truth_set)

C2_Witness ==
    /\ Ascending(call_set)
    /\ Ascending(truth_set)
    /\ PositionsOf(call_set) \cap PositionsOf(truth_set) = {}
    /\ WalkOver
    /\ Len(call_set) = 2
    /\ Cardinality(SnvIndexes(call_set)) = 1
    /\ call_set[1].filtered
    /\ Len(truth_set) = 2
    /\ fp = 1
    /\ fn = 2

(* C3: a step taken while the current SNV call is the same variant as the  *)
(* current truth variant and is filtered adds one to fn_filtered and       *)
(* leaves tp and fn as they are.                                           *)
C3_FilteredMatchStep ==
    /\ pc = "running"
    /\ call_idx < Len(call_set)
    /\ truth_idx < Len(truth_set)
    /\ call_set[call_idx + 1].filtered
    /\ Len(call_set[call_idx + 1].ref_allele) = 1
    /\ Len(call_set[call_idx + 1].alt_allele) = 1
    /\ call_set[call_idx + 1].ref_pos = truth_set[truth_idx + 1].ref_pos
    /\ call_set[call_idx + 1].ref_allele = truth_set[truth_idx + 1].ref_allele
    /\ call_set[call_idx + 1].alt_allele = truth_set[truth_idx + 1].alt_allele

C4_NonSnvCurrent ==
    /\ pc = "running"
    /\ call_idx < Len(call_set)
    /\ call_idx + 1 \notin SnvIndexes(call_set)

C4_SpanEnd ==
    call_set[call_idx + 1].ref_pos + Len(call_set[call_idx + 1].ref_allele) - 1

C4_TruthInSpan ==
    /\ truth_idx < Len(truth_set)
    /\ call_set[call_idx + 1].ref_pos <= truth_set[truth_idx + 1].ref_pos
    /\ truth_set[truth_idx + 1].ref_pos <= C4_SpanEnd

C4_NonSnvSpanSwallowsTruth ==
    [][ C4_NonSnvCurrent =>
          /\ C4_TruthInSpan =>
                /\ fn' = fn + 1
                /\ fn_in_sv' = fn_in_sv + 1
                /\ truth_idx' = truth_idx + 1
                /\ call_idx' = call_idx
          /\ call_idx' # call_idx =>
                \/ truth_idx = Len(truth_set)
                \/ truth_set[truth_idx + 1].ref_pos > C4_SpanEnd ]_vars

C4_Witness ==
    /\ Len(call_set) >= 1
    /\ 1 \notin SnvIndexes(call_set)
    /\ Len(call_set[1].ref_allele) = 2
    /\ call_idx = 0
    /\ truth_idx = 2
    /\ Ascending(truth_set)
    /\ fn_in_sv = 2
    /\ fn = 2

(* C5: fn_in_sv <= fn in every reachable state, for every input, sorted or *)
(* not, so the denominator tp + fn - fn_in_sv is never negative.           *)
C5_FnInSvAtMostFn ==
    /\ fn_in_sv <= fn
    /\ tp + fn - fn_in_sv >= 0

C5_Witness ==
    /\ ~Ascending(truth_set)
    /\ ~Ascending(call_set)
    /\ fn_in_sv = 1
    /\ fn = 2
    /\ WalkOver

(* C6: every step that counts an SNV call as a false positive, while the   *)
(* relaxed truth set holds the same variant and the truth set does not,    *)
(* adds one to fp_filtered as well as to fp; also for a call at a truth    *)
(* position with another allele.                                           *)
C6_InSet(seq, v) ==
    \E i \in DOMAIN seq :
        /\ seq[i].ref_pos = v.ref_pos
        /\ seq[i].ref_allele = v.ref_allele
        /\ seq[i].alt_allele = v.alt_allele

C6_RelaxedOnlyFalsePositive ==
    /\ pc = "running"
    /\ call_idx < Len(call_set)
    /\ call_idx + 1 \in SnvIndexes(call_set)
    /\ fp' = fp + 1
    /\ C6_InSet(relaxed_truth_set, call_set[call_idx + 1])
    /\ ~C6_InSet(truth_set, call_set[call_idx + 1])

C6_EveryRelaxedFalsePositiveIsFpFiltered ==
    [][ C6_RelaxedOnlyFalsePositive => fp_filtered' = fp_filtered + 1 ]_vars

(* C7: for truth = [(100,A,G)] and calls = [(100,A,G,filtered)] the run    *)
(* ends with tp = 0, fn = 1, fn_filtered = 1, fp = 0 and reports the       *)
(* recall 0.0000.                                                          *)
C7_FilteredMatchScenario ==
    ( /\ call_set = << Variant(100, A, G, TRUE) >>
      /\ truth_set = << Variant(100, A, G, FALSE) >>
      /\ WalkOver ) =>
        /\ tp = 0
        /\ fn = 1
        /\ fn_filtered = 1
        /\ fp = 0
        /\ pc # "error"
        /\ pc \in {"reported", "done"} => output[5] = << "Recall", << 0 >> >>

(* C8: no step taken while the current call is a non-SNV, in the main loop *)
(* or in the loop over the remaining calls, changes tp, fp, fp_filtered or *)
(* fn_filtered; a 15-base deletion at 190 with truth = [(200,C,T)] ends    *)
(* with fn = 1, fn_in_sv = 1, tp = 0, fp = 0.                              *)
C8_DeletionScenario ==
    ( /\ call_set = << Variant(190, Del15, A, FALSE) >>
      /\ truth_set = << Variant(200, <<"C">>, T, FALSE) >>
      /\ WalkOver ) =>
        (fn = 1 /\ fn_in_sv = 1 /\ tp = 0 /\ fp = 0)

C8_NonSnvCallNeverCounted ==
    /\ []C8_DeletionScenario
    /\ [][ ( /\ pc = "running"
             /\ call_idx < Len(call_set)
             /\ call_idx + 1 \notin SnvIndexes(call_set) ) =>
              UNCHANGED << tp, fp, fp_filtered, fn_filtered >> ]_vars

C8_Witness ==
    /\ call_set = << Variant(190, Del15, A, FALSE) >>
    /\ truth_set = << Variant(200, <<"C">>, T, FALSE) >>
    /\ call_idx = 1
    /\ fn_in_sv = 1

(* C9: when the final counters make tp + fp, tp + fn or tp + fn - fn_in_sv *)
(* zero, the run ends in the arithmetic error and no line reports that     *)
(* ratio; truth = [] with calls = [(50,A,T)] reaches tp = 0, fp = 1,       *)
(* fn = 0 and fails on the recall denominator.                             *)
C9_ZeroDenominator ==
    /\ WalkOver
    /\ (tp + fp = 0 \/ tp + fn = 0 \/ tp + fn - fn_in_sv = 0)

C9_NoRatioReported ==
    /\ Line("Precision") # {} => tp + fp # 0
    /\ Line("Recall") # {} => tp + fn # 0
    /\ Line("Recall excluding FNs in SVs") # {} => tp + fn - fn_in_sv # 0
    /\ C9_ZeroDenominator => pc # "done"

C9_EmptyTruthScenario ==
    ( /\ call_set = << Variant(50, A, T, FALSE) >>
      /\ truth_set = << >>
      /\ WalkOver ) =>
        /\ tp = 0 /\ fp = 1 /\ fn = 0
        /\ pc # "running" => (pc = "error" /\ err_line = 196 /\ output = << >>)

C9_ZeroDenominatorRaises ==
    /\ [](C9_NoRatioReported /\ C9_EmptyTruthScenario)
    /\ (C9_ZeroDenominator ~> pc = "error")

C9_Witness ==
    /\ call_set = << Variant(50, A, T, FALSE) >>
    /\ truth_set = << >>
    /\ pc = "error"
    /\ err_line = 196
    /\ fp = 1

(* C10: the walk terminates for every finite input, sorted or not: no      *)
(* cursor ever decreases, every iteration of the main loop advances        *)
(* call_idx or truth_idx or both by exactly one, the main loop runs at     *)
(* most len(calls) + len(truth) iterations, and both cursors end at the    *)
(* lengths of their sequences.                                             *)
C10_Terminated == pc \in {"done", "error"}

C10_CursorsInRange ==
    /\ call_idx \in 0 .. Len(call_set)
    /\ truth_idx \in 0 .. Len(truth_set)
    /\ iters <= Len(call_set) + Len(truth_set)
    /\ pc # "running" => (call_idx = Len(call_set) /\ truth_idx = Len(truth_set))

C10_CursorsAdvance ==
    /\ call_idx' - call_idx \in {0, 1}
    /\ truth_idx' - truth_idx \in {0, 1}
    /\ ( /\ pc = "running"
         /\ call_idx < Len(call_set)
         /\ truth_idx < Len(truth_set) ) =>
           /\ iters' = iters + 1
           /\ (call_idx' - call_idx) + (truth_idx' - truth_idx) >= 1

C10_WalkTerminates ==
    /\ []C10_CursorsInRange
    /\ [][C10_CursorsAdvance]_vars
    /\ <>C10_Terminated

C10_Witness ==
    /\ C10_Terminated
    /\ ~Ascending(call_set)
    /\ ~Ascending(truth_set)
    /\ Len(call_set) = 2
    /\ Len(truth_set) = 2
    /\ call_idx = 2
    /\ truth_idx = 2
    /\ iters = 2

(* C11: for sorted inputs with unique truth positions, the final tp is the *)
(* number of truth variants for which the call sequence holds an           *)
(* unfiltered SNV call that is the same variant, also when that call is    *)
(* one of several alternate alleles at the position or a non-SNV call      *)
(* spans the position.                                                     *)
C11_CalledTruth ==
    {j \in DOMAIN truth_set :
        \E i \in SnvIndexes(call_set) :
            /\ ~call_set[i].filtered
            /\ call_set[i].ref_pos = truth_set[j].ref_pos
            /\ call_set[i].ref_allele = truth_set[j].ref_allele
            /\ call_set[i].alt_allele = truth_set[j].alt_allele}

C11_TpCountsCalledTruth ==
    ( /\ Ascending(call_set)
      /\ StrictlyAscending(truth_set)
      /\ WalkOver ) => tp = Cardinality(C11_CalledTruth)

(* C12: for sorted inputs with unique truth positions, the final fp is the *)
(* number of SNV calls with no same-variant entry anywhere in the truth    *)
(* sequence.                                                               *)
C12_CallsNotInTruth ==
    {i \in SnvIndexes(call_set) : ~C6_InSet(truth_set, call_set[i])}

C12_FpCountsCallsNotInTruth ==
    ( /\ Ascending(call_set)
      /\ StrictlyAscending(truth_set)
      /\ WalkOver ) => fp = Cardinality(C12_CallsNotInTruth)

(* C13: in every final result the two counts in parentheses on the False   *)
(* Negatives line are parts of FN: fn_filtered <= fn and fn_in_sv <= fn.   *)
C13_FnSubCounts ==
    WalkOver => (fn_filtered <= fn /\ fn_in_sv <= fn)

(* C14: compute_stats never modifies its inputs: call_set, truth_set and   *)
(* the relaxed truth set keep their elements and their order, and the      *)
(* relaxed lookup stays the one built from the relaxed truth set at entry; *)
(* a step of the walk changes cursors and counters only.                   *)
C14_LookupOf(seq) ==
    [p \in PositionsOf(seq) |->
        seq[CHOOSE i \in DOMAIN seq :
                /\ seq[i].ref_pos = p
                /\ \A j \in DOMAIN seq : (j > i) => seq[j].ref_pos # p]]

C15_LastAt(p) ==
    relaxed_truth_set[
        CHOOSE i \in DOMAIN relaxed_truth_set :
            /\ relaxed_truth_set[i].ref_pos = p
            /\ \A j \in DOMAIN relaxed_truth_set :
                  (j > i) => relaxed_truth_set[j].ref_pos # p]

C15_SameAsLast(v) ==
    /\ v.ref_pos \in PositionsOf(relaxed_truth_set)
    /\ C15_LastAt(v.ref_pos).ref_allele = v.ref_allele
    /\ C15_LastAt(v.ref_pos).alt_allele = v.alt_allele

C15_RelaxedLastEntryWins ==
    [][ /\ fp_filtered' # fp_filtered =>
              /\ fp_filtered' = fp_filtered + 1
              /\ fp' = fp + 1
              /\ call_idx < Len(call_set)
              /\ C15_SameAsLast(call_set[call_idx + 1])
        /\ ( /\ pc = "running"
             /\ call_idx < Len(call_set)
             /\ fp' = fp + 1
             /\ C6_InSet(relaxed_truth_set, call_set[call_idx + 1])
             /\ ~C15_SameAsLast(call_set[call_idx + 1]) ) =>
              fp_filtered' = fp_filtered ]_vars

C15_Witness ==
    /\ Len(relaxed_truth_set) = 2
    /\ relaxed_truth_set[1].ref_pos = relaxed_truth_set[2].ref_pos
    /\ relaxed_truth_set[1].alt_allele # relaxed_truth_set[2].alt_allele
    /\ call_idx = 1
    /\ truth_idx = 0
    /\ Len(truth_set) = 1
    /\ C6_InSet(<< relaxed_truth_set[1] >>, call_set[1])
    /\ fp = 1
    /\ fp_filtered = 0

(* C16: after the main loop at most one of the two cleanup loops runs an   *)
(* iteration: no run processes both a leftover call and a leftover truth   *)
(* entry.                                                                  *)
C16_OneCleanupLoop ==
    /\ cleanup \in {{}, {"calls"}, {"truth"}}
    /\ "calls" \in cleanup => truth_idx = Len(truth_set)
    /\ "truth" \in cleanup => call_idx = Len(call_set)

C16_Witness ==
    /\ cleanup = {"calls"}
    /\ iters = 2
    /\ Len(call_set) = 2
    /\ call_idx = 2
    /\ Len(truth_set) = 2

---------------------------------------------------------------------------
(* Text: a str is a sequence of one-character strings.                     *)

\* the enumerated files hold at most MaxLines lines
MaxLines == 3

TAB == "\t"
NL == "\n"
COMMA == ","
Whitespace == {" ", TAB, NL}

DigitChars == << "0", "1", "2", "3", "4", "5", "6", "7", "8", "9" >>

\* int(s) of a str of decimal digits
RECURSIVE ParseInt(_)
ParseInt(s) ==
    IF Len(s) = 1
    THEN (CHOOSE d \in 1 .. 10 : DigitChars[d] = s[1]) - 1
    ELSE 10 * ParseInt(SubSeq(s, 1, Len(s) - 1))
         + (CHOOSE d \in 1 .. 10 : DigitChars[d] = s[Len(s)]) - 1

\* str(n) of a natural number
RECURSIVE Digits(_)
Digits(n) ==
    IF n < 10 THEN << DigitChars[n + 1] >>
    ELSE Digits(n \div 10) \o << DigitChars[(n % 10) + 1] >>

\* s.split(sep): one more field than there are separators
RECURSIVE Split(_, _)
Split(s, sep) ==
    IF \A i \in DOMAIN s : s[i] # sep
    THEN << s >>
    ELSE LET k == CHOOSE i \in DOMAIN s :
                     s[i] = sep /\ \A j \in 1 .. i - 1 : s[j] # sep
         IN  << SubSeq(s, 1, k - 1) >> \o Split(SubSeq(s, k + 1, Len(s)), sep)

\* s.strip()
RECURSIVE Strip(_)
Strip(s) ==
    IF s = << >> THEN s
    ELSE IF s[1] \in Whitespace THEN Strip(Tail(s))
    ELSE IF s[Len(s)] \in Whitespace THEN Strip(SubSeq(s, 1, Len(s) - 1))
    ELSE s

\* sep.join(fields)
RECURSIVE Join(_, _)
Join(fields, sep) ==
    IF Len(fields) = 0 THEN << >>
    ELSE IF Len(fields) = 1 THEN fields[1]
    ELSE fields[1] \o << sep >> \o Join(Tail(fields), sep)

PASS == << "P", "A", "S", "S" >>
SNV == << "S", "N", "V" >>

---------------------------------------------------------------------------
(* The files of the loaders.  A line is kept with the record it was        *)
(* written from: text is what the loader reads, the other fields are       *)
(* history.                                                                *)

\* "##v": a header line of a VCF
VcfHeader ==
    [text |-> << "#", "#", "v", NL >>, header |-> TRUE, pos |-> 0,
     ref |-> << >>, alts |-> << >>, filter |-> << >>]

\* CHROM POS ID REF ALT QUAL FILTER INFO
VcfRecord(pos, ref, alts, filter) ==
    [text |-> Join(<< << "c" >>, Digits(pos), << "." >>, ref,
                      Join(alts, COMMA), << "." >>, filter, << "." >> >>,
                   TAB) \o << NL >>,
     header |-> FALSE, pos |-> pos, ref |-> ref, alts |-> alts,
     filter |-> filter]

VcfLines ==
    {VcfHeader}
    \cup {VcfRecord(pos, ref, alts, filter) :
            pos \in {2, 13}, ref \in {A, << "A", "C" >>},
            alts \in {<< G >>, << GG, T >>},
            filter \in {PASS, << "q", "1", "0" >>}}

\* ref_id,qry_id,var_type,ref_pos,qry_pos,ref_base,qry_base
CsvRow(type, pos, ref_base, qry_base) ==
    [text |-> Join(<< << "r" >>, << "q" >>, type, Digits(pos), Digits(pos + 1),
                      ref_base, qry_base >>, COMMA) \o << NL >>,
     type |-> type, pos |-> pos, ref_base |-> ref_base,
     qry_base |-> qry_base]

CsvLines ==
    {CsvRow(type, pos, A, qry) :
        type \in {SNV, << "I", "N", "S" >>, << "v", "a", "r", "_", "t" >>},
        pos \in {0, 12}, qry \in {G, T}}

\* the state at the entry of a loader or of merge_gfas
Entry(program, lines, files) ==
    /\ call_set = << >>
    /\ truth_set = << >>
    /\ relaxed_truth_set = << >>
    /\ relaxed_truth_dict = << >>
    /\ tp = 0 /\ fp = 0 /\ fn = 0
    /\ fp_filtered = 0 /\ fn_filtered = 0 /\ fn_in_sv = 0
    /\ truth_idx = 0 /\ call_idx = 0
    /\ pc = program
    /\ err_line = 0
    /\ output = << >>
    /\ iters = 0
    /\ cleanup = {}
    /\ file = lines
    /\ line_no = 0
    /\ gfas = files
    /\ gfa_idx = 0
    /\ current_max_ID = 0
    /\ graph = << >>
    /\ GuessIdle

not_loader == << relaxed_truth_set, relaxed_truth_dict, counters,
                 truth_idx, call_idx, err_line, output, iters, cleanup,
                 gfa_vars, guess_vars >>

---------------------------------------------------------------------------
(* load_vcf, lines 83-102.                                                 *)

\* mutant: the position is made 0-based only
VcfRefPos_ZeroBased(field) == ParseInt(field) - 1

\* line 94
VcfRefPos(field) == ParseInt(field) - 2

\* lines 92-101: the Variants of one data line
VcfVariants(line) ==
    LET parts == Split(Strip(line), TAB)
        ref_pos == VcfRefPos(parts[2])
        ref_base == parts[4]
        alt_bases == Split(parts[5], COMMA)
        filtered == parts[7] # PASS
    IN  [k \in 1 .. Len(alt_bases) |->
            Variant(ref_pos, ref_base, alt_bases[k], filtered)]

\* lines 87-101: one iteration of the loop over the lines
LoadVcfLine ==
    /\ pc = "load_vcf"
    /\ line_no < Len(file)
    /\ LET line == file[line_no + 1].text
       IN  call_set' = IF line[1] = "#" THEN call_set
                       ELSE call_set \o VcfVariants(line)
    /\ line_no' = line_no + 1
    /\ UNCHANGED << truth_set, pc, file, not_loader >>

---------------------------------------------------------------------------
(* load_truth_set, lines 66-81.                                            *)

\* mutant: the first line is read as a row
LoadTruthHeader_NoSkip ==
    /\ pc = "load_truth_set"
    /\ pc' = "load_truth_rows"
    /\ UNCHANGED << call_set, truth_set, line_no, file, not_loader >>

\* line 70: f.readline() reads the first line, if there is one
LoadTruthHeader ==
    /\ pc = "load_truth_set"
    /\ pc' = "load_truth_rows"
    /\ line_no' = IF Len(file) = 0 THEN 0 ELSE 1
    /\ UNCHANGED << call_set, truth_set, file, not_loader >>

\* lines 71-80: one iteration of the loop over the rows
LoadTruthRow ==
    /\ pc = "load_truth_rows"
    /\ line_no < Len(file)
    /\ LET parts == Split(Strip(file[line_no + 1].text), COMMA)
           var_type == parts[3]
           ref_pos == parts[4]
           ref_base == parts[6]
           qry_base == parts[7]
       IN  truth_set' =
               IF var_type = SNV
               THEN Append(truth_set,
                           Variant(ParseInt(ref_pos), ref_base, qry_base, FALSE))
               ELSE truth_set
    /\ line_no' = line_no + 1
    /\ UNCHANGED << call_set, pc, file, not_loader >>

InitLoad ==
    \E n \in 0 .. MaxLines :
        \/ \E f \in SeqsOfLen(VcfLines, n) : Entry("load_vcf", f, << >>)
        \/ \E f \in SeqsOfLen(CsvLines, n) : Entry("load_truth_set", f, << >>)

NextLoad ==
    \/ LoadVcfLine
    \/ LoadTruthHeader
    \/ LoadTruthRow

SpecLoad == InitLoad /\ [][NextLoad]_vars

(* C17: load_vcf emits, for each non-header record in record order, one    *)
(* Variant per comma-separated alternate allele, as consecutive entries,   *)
(* with ref_pos = the record's 1-based position minus 2, the record's      *)
(* reference allele, and filtered true iff the filter field is not PASS;   *)
(* header lines emit nothing.                                              *)
RECURSIVE C17_Emitted(_)
C17_Emitted(n) ==
    IF n = 0 THEN << >>
    ELSE C17_Emitted(n - 1) \o
         ( IF file[n].header THEN << >>
           ELSE [k \in 1 .. Len(file[n].alts) |->
                    [ref_pos |-> file[n].pos - 2,
                     ref_allele |-> file[n].ref,
                     alt_allele |-> file[n].alts[k],
                     filtered |-> file[n].filter # << "P", "A", "S", "S" >>]] )

C17_LoadVcfEmitsOnePerAlt ==
    pc = "load_vcf" => call_set = C17_Emitted(line_no)

C17_Witness ==
    /\ pc = "load_vcf"
    /\ line_no = 3
    /\ file[1].header
    /\ ~file[2].header /\ Len(file[2].alts) = 2 /\ file[2].filter = PASS
    /\ ~file[3].header /\ file[3].filter # PASS /\ file[3].pos = 13
    /\ Len(call_set) = 3
    /\ call_set[3].ref_pos = 11
    /\ call_set[3].filtered

(* C18: load_truth_set skips the first line and then emits one Variant per *)
(* row whose type tag is "SNV", in row order, with ref_pos = the row's     *)
(* position field, the row's reference and query bases as alleles, and     *)
(* filtered false; rows with another type tag emit nothing.                *)
RECURSIVE C18_Emitted(_)
C18_Emitted(n) ==
    IF n <= 1 THEN << >>
    ELSE C18_Emitted(n - 1) \o
         ( IF file[n].type = << "S", "N", "V" >>
           THEN << [ref_pos |-> file[n].pos,
                    ref_allele |-> file[n].ref_base,
                    alt_allele |-> file[n].qry_base,
                    filtered |-> FALSE] >>
           ELSE << >> )

C18_LoadTruthSetEmitsSnvRows ==
    /\ pc = "load_truth_set" => truth_set = << >>
    /\ pc = "load_truth_rows" => truth_set = C18_Emitted(line_no)

C18_Witness ==
    /\ pc = "load_truth_rows"
    /\ line_no = 3
    /\ file[1].type = SNV
    /\ file[2].type = SNV
    /\ file[3].type # SNV
    /\ truth_set = << Variant(file[2].pos, A, file[2].qry_base, FALSE) >>
    /\ file[2].pos = 12

---------------------------------------------------------------------------
(* add_dummy_caps.py.  A Graph is (nodes, edges, paths).  What read_gfa    *)
(* returns keeps the order of its dicts: nodes is the list of (id, seq)    *)
(* items and paths the list of (name, node list) items, keys distinct.     *)
(* The merged nodes are a function of the new ID.                          *)

\* merge_gfas is given at most MaxGfas files
MaxGfas == 2

DUMMY_START_ID == 1
DUMMY_END_ID == 2

Max(a, b) == IF a >= b THEN a ELSE b

Node(id, seq) == [id |-> id, seq |-> seq]
Edge(from_node, from_orient, to_node, to_orient, overlap) ==
    << from_node, from_orient, to_node, to_orient, overlap >>
Path(name, node_list) == [name |-> name, node_list |-> node_list]
Graph(nodes, edges, paths) ==
    [nodes |-> nodes, edges |-> edges, paths |-> paths]

\* the node lists of the files: IDs that meet each other's and the dummies'
GfaNodes ==
    { << Node(1, "A") >>,
      << Node(1, "C"), Node(2, "G") >>,
      << Node(2, "T"), Node(1, "A") >> }

\* the paths of a file with these nodes: none, one, or two
GfaPaths(nodes) ==
    LET first == nodes[1].id
        last == nodes[Len(nodes)].id
        forward == << << first, "+" >> >>
        back == << << last, "-" >>, << first, "+" >> >>
    IN  { << >> }
        \cup { << Path(name, l) >> : name \in {"h1", "h2"},
                                     l \in {forward, back} }
        \cup { << Path("h2", back), Path("h1", forward) >> }

\* what read_gfa returns, lines 42-88
GfaFiles ==
    UNION { { Graph(nodes, edges, paths) :
                edges \in { << >>,
                            << Edge(nodes[1].id, "+",
                                    nodes[Len(nodes)].id, "-", "0M") >> },
                paths \in GfaPaths(nodes) } :
            nodes \in GfaNodes }

\* lines 110-117: the new ID of each node of a file
IdMapping(nodes, max_ID) ==
    [old_id \in {nodes[k].id : k \in DOMAIN nodes} |->
        max_ID + (CHOOSE k \in DOMAIN nodes : nodes[k].id = old_id)]

\* paths[name] = node_list on a dict kept as its list of items
SetPath(paths, name, node_list) ==
    IF \E k \in DOMAIN paths : paths[k].name = name
    THEN [k \in DOMAIN paths |->
            IF paths[k].name = name THEN Path(name, node_list) ELSE paths[k]]
    ELSE Append(paths, Path(name, node_list))

\* lines 128-131: the paths of a file go into merged_paths
RECURSIVE MergePaths(_, _, _)
MergePaths(merged_paths, paths, id_mapping) ==
    IF paths = << >> THEN merged_paths
    ELSE LET node_list == paths[1].node_list
             new_node_list ==
                 [k \in DOMAIN node_list |->
                     << id_mapping[node_list[k][1]], node_list[k][2] >>]
         IN  MergePaths(SetPath(merged_paths, paths[1].name, new_node_list),
                        Tail(paths), id_mapping)

not_gfa == << inputs, counters, truth_idx, call_idx, err_line, output,
              iters, cleanup, loader_vars, guess_vars >>

\* lines 104-107
MergeStart ==
    /\ pc = "merge_gfas"
    /\ graph' = Graph(<< >>, << >>, << >>)
    /\ current_max_ID' = Max(DUMMY_START_ID, DUMMY_END_ID)
    /\ pc' = "merging"
    /\ UNCHANGED << gfas, gfa_idx, not_gfa >>

\* lines 109-131: one file is merged
MergeGfa ==
    /\ pc = "merging"
    /\ gfa_idx < Len(gfas)
    /\ LET nodes == gfas[gfa_idx + 1].nodes
           edges == gfas[gfa_idx + 1].edges
           paths == gfas[gfa_idx + 1].paths
           id_mapping == IdMapping(nodes, current_max_ID)
           merged_nodes ==
               [new_id \in DOMAIN graph.nodes \cup
                           {id_mapping[nodes[k].id] : k \in DOMAIN nodes} |->
                   IF \E k \in DOMAIN nodes : id_mapping[nodes[k].id] = new_id
                   THEN LET k == CHOOSE j \in DOMAIN nodes :
                                     id_mapping[nodes[j].id] = new_id
                        IN  nodes[k].seq
                   ELSE graph.nodes[new_id]]
           merged_edges ==
               graph.edges \o
               [k \in DOMAIN edges |->
                   Edge(id_mapping[edges[k][1]], edges[k][2],
                        id_mapping[edges[k][3]], edges[k][4], edges[k][5])]
           merged_paths == MergePaths(graph.paths, paths, id_mapping)
       IN  /\ graph' = Graph(merged_nodes, merged_edges, merged_paths)
           /\ current_max_ID' = current_max_ID + Len(nodes)
    /\ gfa_idx' = gfa_idx + 1
    /\ UNCHANGED << gfas, pc, not_gfa >>

\* mutant: the end edges of the paths are not added
AddDummyNodes_NoEndEdges ==
    /\ pc = "merging"
    /\ gfa_idx = Len(gfas)
    /\ LET paths == graph.paths
           nodes == [id \in DOMAIN graph.nodes
                            \cup {DUMMY_START_ID, DUMMY_END_ID} |->
                        IF id \in {DUMMY_START_ID, DUMMY_END_ID} THEN "N"
                        ELSE graph.nodes[id]]
           start_edges ==
               [k \in DOMAIN paths |->
                   Edge(DUMMY_START_ID, "+", paths[k].node_list[1][1],
                        paths[k].node_list[1][2], "*")]
           new_paths ==
               [k \in DOMAIN paths |->
                   Path(paths[k].name,
                        << << DUMMY_START_ID, "+" >> >> \o paths[k].node_list
                        \o << << DUMMY_END_ID, "+" >> >>)]
       IN  graph' = Graph(nodes, graph.edges \o start_edges, new_paths)
    /\ pc' = "write_gfa"
    /\ UNCHANGED << gfas, gfa_idx, current_max_ID, not_gfa >>

\* lines 148-169: add_dummy_nodes on the merged graph
AddDummyNodes ==
    /\ pc = "merging"
    /\ gfa_idx = Len(gfas)
    /\ LET paths == graph.paths
           nodes == [id \in DOMAIN graph.nodes
                            \cup {DUMMY_START_ID, DUMMY_END_ID} |->
                        IF id \in {DUMMY_START_ID, DUMMY_END_ID} THEN "N"
                        ELSE graph.nodes[id]]
           start_edges ==
               [k \in DOMAIN paths |->
                   Edge(DUMMY_START_ID, "+", paths[k].node_list[1][1],
                        paths[k].node_list[1][2], "*")]
           end_edges ==
               [k \in DOMAIN paths |->
                   LET path_nodes == paths[k].node_list
                   IN  Edge(path_nodes[Len(path_nodes)][1],
                            path_nodes[Len(path_nodes)][2],
                            DUMMY_END_ID, "+", "*")]
           new_paths ==
               [k \in DOMAIN paths |->
                   Path(paths[k].name,
                        << << DUMMY_START_ID, "+" >> >> \o paths[k].node_list
                        \o << << DUMMY_END_ID, "+" >> >>)]
       IN  graph' = Graph(nodes, graph.edges \o start_edges \o end_edges,
                          new_paths)
    /\ pc' = "write_gfa"
    /\ UNCHANGED << gfas, gfa_idx, current_max_ID, not_gfa >>

InitGfa ==
    \E n \in 0 .. MaxGfas :
        \E files \in SeqsOfLen(GfaFiles, n) :
            Entry("merge_gfas", << >>, files)

NextGfa ==
    \/ MergeStart
    \/ MergeGfa
    \/ AddDummyNodes

SpecGfa == InitGfa /\ [][NextGfa]_vars

(* C19: merge_gfas changes node IDs so that they never conflict: after     *)
(* merging, every node of every file has its own new ID, the new IDs are   *)
(* the consecutive integers from 3 on (never the dummy IDs 1 and 2), and   *)
(* each file's edges and paths refer to that file's remapped IDs.          *)
C19_Merged == pc = "merging" /\ gfa_idx = Len(gfas)

\* the number of nodes of the files before file i
RECURSIVE C19_NodesBefore(_)
C19_NodesBefore(i) ==
    IF i <= 1 THEN 0
    ELSE C19_NodesBefore(i - 1) + Len(gfas[i - 1].nodes)

\* the new ID of the node old_id of file i
C19_NewId(i, old_id) ==
    2 + C19_NodesBefore(i)
    + (CHOOSE k \in DOMAIN gfas[i].nodes : gfas[i].nodes[k].id = old_id)

C19_Remapped(i, node_list) ==
    [k \in DOMAIN node_list |->
        << C19_NewId(i, node_list[k][1]), node_list[k][2] >>]

C19_NodesRenumbered ==
    C19_Merged =>
        /\ DOMAIN graph.nodes = 3 .. 2 + C19_NodesBefore(Len(gfas) + 1)
        /\ \A i \in DOMAIN gfas : \A k \in DOMAIN gfas[i].nodes :
               graph.nodes[C19_NewId(i, gfas[i].nodes[k].id)]
                   = gfas[i].nodes[k].seq

RECURSIVE C19_EdgesUpTo(_)
C19_EdgesUpTo(i) ==
    IF i = 0 THEN << >>
    ELSE C19_EdgesUpTo(i - 1) \o
         [k \in DOMAIN gfas[i].edges |->
             LET edge == gfas[i].edges[k]
             IN  << C19_NewId(i, edge[1]), edge[2],
                    C19_NewId(i, edge[3]), edge[4], edge[5] >>]

C19_EdgesRemapped ==
    C19_Merged => graph.edges = C19_EdgesUpTo(Len(gfas))

C19_PathsRemapped ==
    C19_Merged =>
        \A i \in DOMAIN gfas : \A k \in DOMAIN gfas[i].paths :
            \E m \in DOMAIN graph.paths :
                /\ graph.paths[m].name = gfas[i].paths[k].name
                /\ graph.paths[m].node_list
                       = C19_Remapped(i, gfas[i].paths[k].node_list)

C19_MergeNeverConflicts ==
    /\ C19_NodesRenumbered
    /\ C19_EdgesRemapped
    /\ C19_PathsRemapped

(* C20: add_dummy_nodes connects the dummy start and end nodes to all      *)
(* paths: every path of the input graph becomes (1,+), then its original   *)
(* node list unchanged, then (2,+), and the edge list gains an edge from   *)
(* (1,+) to the path's original first node and an edge from the path's     *)
(* original last node to (2,+).                                            *)
C20_StartEdge(node_list) ==
    << 1, "+", node_list[1][1], node_list[1][2], "*" >>

C20_EndEdge(node_list) ==
    << node_list[Len(node_list)][1], node_list[Len(node_list)][2],
       2, "+", "*" >>

C20_Capped(before, after) ==
    /\ Len(after.paths) = Len(before.paths)
    /\ \A k \in DOMAIN before.paths :
           /\ after.paths[k].name = before.paths[k].name
           /\ after.paths[k].node_list
                  = << << 1, "+" >> >> \o before.paths[k].node_list
                    \o << << 2, "+" >> >>
    /\ Len(after.edges) = Len(before.edges) + 2 * Len(before.paths)
    /\ SubSeq(after.edges, 1, Len(before.edges)) = before.edges
    /\ LET gained == {after.edges[e] :
                        e \in Len(before.edges) + 1 .. Len(after.edges)}
       IN  gained = {C20_StartEdge(before.paths[k].node_list) :
                        k \in DOMAIN before.paths}
                    \cup {C20_EndEdge(before.paths[k].node_list) :
                            k \in DOMAIN before.paths}

C20_DummyNodesCapEveryPath ==
    [][(pc = "merging" /\ pc' = "write_gfa") => C20_Capped(graph, graph')]_vars

C20_Witness ==
    /\ pc = "write_gfa"
    /\ Len(gfas) = 2
    /\ Len(gfas[1].edges) = 1
    /\ Len(graph.paths) = 2
    /\ Len(graph.paths[1].node_list) = 4
    /\ graph.paths[2].node_list[2][1] = 6
    /\ Len(graph.edges) = 5
    /\ graph.edges[5] = << 5, "+", 2, "+", "*" >>

C23_SnvCallsUpTo(n) ==
    Cardinality({i \in 1 .. n : /\ Len(call_set[i].ref_allele) = 1
                                /\ Len(call_set[i].alt_allele) = 1})

C23_SnvCallsClassifiedOnce ==
    /\ tp + fn_filtered + fp = C23_SnvCallsUpTo(call_idx)
    /\ pc # "running" => tp + fn_filtered + fp = C23_SnvCallsUpTo(Len(call_set))
    /\ fp_filtered <= fp

C23_Witness ==
    /\ pc = "done"
    /\ Len(call_set) = 2
    /\ C23_SnvCallsUpTo(2) = 1
    /\ tp = 1
    /\ fp = 0
    /\ fn = 1

(* C24: compute_stats performs no sortedness validation: for a call or     *)
(* truth sequence that is not ascending by position it reaches no          *)
(* validation-error state (the only failures are the zero denominators of  *)
(* lines 195, 196 and 204), it still terminates, and it can classify an    *)
(* unfiltered SNV call that is the same variant as a truth entry as one fp *)
(* plus one fn instead of a tp.                                            *)
C24_Unsorted ==
    \/ \E i, j \in DOMAIN call_set :
          i < j /\ call_set[i].ref_pos > call_set[j].ref_pos
    \/ \E i, j \in DOMAIN truth_set :
          i < j /\ truth_set[i].ref_pos > truth_set[j].ref_pos

C24_OnlyZeroDivisionFails ==
    (C24_Unsorted /\ pc = "error") =>
        \/ err_line = 195 /\ tp + fp = 0
        \/ err_line = 196 /\ tp + fp # 0 /\ tp + fn = 0
        \/ err_line = 204 /\ tp + fp # 0 /\ tp + fn # 0
                          /\ tp + fn - fn_in_sv = 0

C24_NoSortednessValidation ==
    /\ []C24_OnlyZeroDivisionFails
    /\ (C24_Unsorted ~> (pc \in {"done", "error"} /\ WalkOver))

C24_Witness ==
    /\ call_set = << Variant(2, A, T, FALSE), Variant(1, A, G, FALSE) >>
    /\ truth_set = << Variant(1, A, G, FALSE) >>
    /\ pc = "done"
    /\ tp = 0
    /\ fp = 2
    /\ fn = 1

(* C25: ordering of failure and output in compute_stats: a zero precision  *)
(* denominator (tp + fp) or recall denominator (tp + fn) fails before any  *)
(* report line is emitted, whereas a zero SV-excluding denominator         *)
(* (tp + fn - fn_in_sv = 0 with the other two non-zero) fails only after   *)
(* the TP, FP, FN, Precision and Recall lines have been emitted.           *)
C25_Labels == [i \in DOMAIN output |-> output[i][1]]

C25_FiveLines ==
    << "True Positives (TP)", "False Positives (FP)", "False Negatives (FN)",
       "Precision", "Recall" >>

C25_FailureAndOutputOrder ==
    (pc # "running" /\ WalkOver) =>
        /\ (tp + fp = 0 \/ tp + fn = 0) =>
              /\ pc = "error"
              /\ err_line = IF tp + fp = 0 THEN 195 ELSE 196
              /\ output = << >>
        /\ (tp + fp # 0 /\ tp + fn # 0 /\ tp + fn - fn_in_sv = 0) =>
              /\ pc \in {"reported", "error"}
              /\ C25_Labels = C25_FiveLines
              /\ pc = "error" => err_line = 204

C25_Witness ==
    /\ pc = "error"
    /\ err_line = 204
    /\ Len(output) = 5
    /\ tp = 0
    /\ fp = 1
    /\ fn = 1
    /\ fn_in_sv = 1
    /\ ~is_snv(call_set[1])
    /\ is_snv(call_set[2])

---------------------------------------------------------------------------
(* guess_optimal_num_sampled_haplo.py: guess_optimal_n, lines 140-181.     *)
(* An identity is kept in ten-thousandths (0.99 is 9900) and an average as *)
(* the pair [sum, len]; no two averages of the enumerated files differ by  *)
(* exactly the jump threshold, so the comparisons are those of the floats. *)

\* the candidate n are among 1 .. MaxN
MaxN == 4

\* line 20, as a fraction
MAX_HOPELESS_FRACTION == [num |-> 1, den |-> 2]
\* line 22, in ten-thousandths
HOPELESS_IDENTITY_THRESHOLD == 9900
\* line 24, in ten-thousandths
JUMP_IDENTITY_THRESHOLD == 25

\* the identities read_identity_tsv returns for a file, lines 83-91
IdentityLists ==
    { << >>,
      << 9000 >>,
      << 9900 >>,
      << 9900, 9000 >>,
      << 10000 >>,
      << 9920, 9900 >>,
      << 9000, 9000, 10000 >> }

\* mutant: a file with exactly the maximal fraction is hopeless too
is_file_hopeless_AtLeastMax(identities) ==
    LET total_reads == Len(identities)
        hopeless_reads ==
            Cardinality({i \in DOMAIN identities :
                            identities[i] < HOPELESS_IDENTITY_THRESHOLD})
    IN  IF total_reads = 0 THEN TRUE
        ELSE hopeless_reads * MAX_HOPELESS_FRACTION.den
                 >= MAX_HOPELESS_FRACTION.num * total_reads

\* lines 110-119
is_file_hopeless(identities) ==
    LET total_reads == Len(identities)
        hopeless_reads ==
            Cardinality({i \in DOMAIN identities :
                            identities[i] < HOPELESS_IDENTITY_THRESHOLD})
    IN  IF total_reads = 0 THEN TRUE
        ELSE hopeless_reads * MAX_HOPELESS_FRACTION.den
                 > MAX_HOPELESS_FRACTION.num * total_reads

RECURSIVE Sum(_)
Sum(values) == IF values = << >> THEN 0 ELSE Head(values) + Sum(Tail(values))

\* lines 135-138
calculate_average_identity(identities) ==
    IF Len(identities) = 0 THEN [sum |-> 0, len |-> 1]
    ELSE [sum |-> Sum(identities), len |-> Len(identities)]

\* line 176: cur_avg - jump_avg > JUMP_IDENTITY_THRESHOLD
IsJump(cur_avg, jump) ==
    cur_avg.sum * jump.len - jump.sum * cur_avg.len
        > JUMP_IDENTITY_THRESHOLD * cur_avg.len * jump.len

\* line 161: sorted(tsv_files.keys())
RECURSIVE SortedKeys(_)
SortedKeys(keys) ==
    IF keys = {} THEN << >>
    ELSE LET least == CHOOSE n \in keys : \A m \in keys : n <= m
         IN  << least >> \o SortedKeys(keys \ {least})

not_guess == << inputs, counters, truth_idx, call_idx, err_line, output,
                iters, cleanup, loader_vars, gfa_vars >>

\* the state at the entry of collect_tsvs or of guess_optimal_n
GuessEntry(program, names, tsvs) ==
    /\ call_set = << >>
    /\ truth_set = << >>
    /\ relaxed_truth_set = << >>
    /\ relaxed_truth_dict = << >>
    /\ tp = 0 /\ fp = 0 /\ fn = 0
    /\ fp_filtered = 0 /\ fn_filtered = 0 /\ fn_in_sv = 0
    /\ truth_idx = 0 /\ call_idx = 0
    /\ pc = program
    /\ err_line = 0
    /\ output = << >>
    /\ iters = 0
    /\ cleanup = {}
    /\ file = << >>
    /\ line_no = 0
    /\ gfas = << >>
    /\ gfa_idx = 0
    /\ current_max_ID = 0
    /\ graph = << >>
    /\ walk_files = names
    /\ file_idx = 0
    /\ tsv_files = tsvs
    /\ n_idx = 0
    /\ found_non_hopeless = FALSE
    /\ n_with_jump = None
    /\ jump_avg = [sum |-> 0, len |-> 1]
    /\ optimal_n = None

\* lines 161-179: one iteration of the loop over the sorted keys
GuessStep ==
    /\ pc = "guess_optimal_n"
    /\ n_idx < Cardinality(DOMAIN tsv_files)
    /\ LET n == SortedKeys(DOMAIN tsv_files)[n_idx + 1]
           current_identities == tsv_files[n]
           cur_avg == calculate_average_identity(current_identities)
       IN  IF is_file_hopeless(current_identities)
           THEN UNCHANGED << found_non_hopeless, n_with_jump, jump_avg >>
           ELSE IF ~found_non_hopeless
           THEN /\ found_non_hopeless' = TRUE
                /\ n_with_jump' = n
                /\ jump_avg' = cur_avg
           ELSE IF IsJump(cur_avg, jump_avg)
           THEN /\ n_with_jump' = n
                /\ jump_avg' = cur_avg
                /\ UNCHANGED found_non_hopeless
           ELSE UNCHANGED << found_non_hopeless, n_with_jump, jump_avg >>
    /\ n_idx' = n_idx + 1
    /\ UNCHANGED << pc, walk_files, file_idx, tsv_files, optimal_n, not_guess >>

\* line 181
GuessReturn ==
    /\ pc = "guess_optimal_n"
    /\ n_idx = Cardinality(DOMAIN tsv_files)
    /\ optimal_n' = IF found_non_hopeless THEN n_with_jump ELSE 0
    /\ pc' = "guessed"
    /\ UNCHANGED << walk_files, file_idx, tsv_files, n_idx, found_non_hopeless,
                    n_with_jump, jump_avg, not_guess >>

InitGuess ==
    \E keys \in SUBSET (1 .. MaxN) :
        \E tsvs \in [keys -> IdentityLists] :
            GuessEntry("guess_optimal_n", << >>, tsvs)

NextGuess ==
    \/ GuessStep
    \/ GuessReturn

SpecGuess == InitGuess /\ [][NextGuess]_vars

(* C21: guess_optimal_n returns 0 if and only if every candidate n's       *)
(* alignment file is hopeless (or there are no candidates); otherwise it   *)
(* returns one of the candidate n whose file is not hopeless, never        *)
(* smaller than the smallest non-hopeless n.                               *)
C21_Hopeless(identities) ==
    \/ Len(identities) = 0
    \/ 2 * Cardinality({i \in DOMAIN identities : identities[i] < 9900})
           > Len(identities)

C21_NonHopeless == {n \in DOMAIN tsv_files : ~C21_Hopeless(tsv_files[n])}

---------------------------------------------------------------------------
(* guess_optimal_num_sampled_haplo.py: collect_tsvs, lines 39-65.          *)

\* os.walk yields at most MaxFiles file names
MaxFiles == 3

\* line 17
TSV_DIR ==
    << "/private/groups/patenlab/fokamoto/centrolign/alignments/leave_one_out" >>

\* the name argument of collect_tsvs
HapName == << "H", "G", "1" >>

DOT == "."
REAL_ == << "r", "e", "a", "l", "_" >>
DOT_TSV == << DOT, "t", "s", "v" >>
HAPS == << "h", "a", "p", "s" >>

\* s.startswith(prefix)
StartsWith(s, prefix) ==
    /\ Len(s) >= Len(prefix)
    /\ SubSeq(s, 1, Len(prefix)) = prefix

\* s.endswith(suffix)
EndsWith(s, suffix) ==
    /\ Len(s) >= Len(suffix)
    /\ SubSeq(s, Len(s) - Len(suffix) + 1, Len(s)) = suffix

\* os.path.join(TSV_DIR, file)
JoinPath(dir, name) == dir \o << "/" >> \o name

\* real_<name>.<k>haps.tsv, kept with the k it was written from
TsvName(k) ==
    [text |-> REAL_ \o HapName \o << DOT >> \o Digits(k) \o HAPS \o DOT_TSV,
     k |-> k, named |-> TRUE]

\* a file name of another form
OtherName(text) == [text |-> text, k |-> 0, named |-> FALSE]

WalkNames ==
    {TsvName(k) : k \in {1, 2, 10, 12}}
    \cup {OtherName(REAL_ \o HapName \o << DOT >> \o Digits(2) \o HAPS
                    \o << DOT, "g", "a", "f" >>),
          OtherName(REAL_ \o HapName \o DOT_TSV),
          OtherName(<< "s", "i", "m", "_" >> \o HapName \o << DOT >>
                    \o Digits(1) \o HAPS \o DOT_TSV)}

\* lines 61-62: int(parts[1][0])
NumHap(part) == ParseInt(<< part[1] >>)

\* lines 55-63: one iteration of the loop over the file names
CollectFile ==
    /\ pc = "collect_tsvs"
    /\ file_idx < Len(walk_files)
    /\ LET name == walk_files[file_idx + 1].text
           parts == Split(name, DOT)
       IN  IF /\ StartsWith(name, REAL_ \o HapName)
              /\ EndsWith(name, DOT_TSV)
              /\ Len(parts) = 3
           THEN LET num_hap == NumHap(parts[2])
                IN  tsv_files' =
                        [n \in DOMAIN tsv_files \cup {num_hap} |->
                            IF n = num_hap THEN JoinPath(TSV_DIR, name)
                            ELSE tsv_files[n]]
           ELSE UNCHANGED tsv_files
    /\ file_idx' = file_idx + 1
    /\ UNCHANGED << pc, walk_files, n_idx, found_non_hopeless, n_with_jump,
                    jump_avg, optimal_n, not_guess >>

\* line 65
CollectReturn ==
    /\ pc = "collect_tsvs"
    /\ file_idx = Len(walk_files)
    /\ pc' = "collected"
    /\ UNCHANGED << guess_vars, not_guess >>

InitCollect ==
    \E n \in 0 .. MaxFiles :
        \E names \in SeqsOfLen(WalkNames, n) :
            GuessEntry("collect_tsvs", names, << >>)

NextCollect ==
    \/ CollectFile
    \/ CollectReturn

SpecCollect == InitCollect /\ [][NextCollect]_vars

(* C26: collect_tsvs returns a dictionary mapping the number of sampled    *)
(* haplotypes to the TSV file: for every file named                        *)
(* real_<name>.<k>haps.tsv, including k >= 10, the returned dictionary has *)
(* key k for that file, and files with different k never overwrite each    *)
(* other.                                                                  *)
C26_KeyIsNumberOfHaplotypes ==
    pc = "collected" =>
        \A i \in DOMAIN walk_files :
            walk_files[i].named =>
                /\ walk_files[i].k \in DOMAIN tsv_files
                /\ tsv_files[walk_files[i].k]
                       = TSV_DIR \o << "/" >> \o walk_files[i].text

====
